---- MODULE Spec2Model ----
(***************************************************************************)
(* Custodial Bitcoin gift-card backend: card issuance, the fund_card       *)
(* worker, the redemption path of the card service, the treasury lock and  *)
(* cache, and the Redis stream (consumer group, pending list, reclaim).    *)
(*                                                                         *)
(* Each action is one suspension point of the Go code (one database        *)
(* statement, one Redis command, one node RPC) together with the local     *)
(* computation around it.  Time is abstracted: a TTL or an idle threshold  *)
(* may elapse between any two steps.                                       *)
(***************************************************************************)
EXTENDS Integers, Sequences, FiniteSets, Bags, TLC

\* ------------------------------------------------------------------ bounds
MaxCards == 1
MaxTx == 3
MaxIssued == 2
MaxStream == 2

\* ------------------------------------------------------- program constants
minOnChainAmountSats == 10000
dustLimit == 546
XReadCount == 10
XAutoClaimCount == 100
maxAttempts == 5

\* ------------------------------------------------------------ input ranges
Workers == {"w1", "w2"}
Redeemers == {"r1", "r2"}
Issuers == {"i1", "i2"}
\* the codes rand.Read can produce, kept to two so that collisions happen
CodeSpace == {1, 2}
FiatAmounts == {0, 1000}
Prices == {50000, 2000000000}
Amounts == {10000, 20000}
\* Spec draws redemptions from RedeemMethods; the on-chain path differs from the
\* Lightning path in the minimum amount and in the fields of the stored row only.
RedeemMethods == {"lightning"}
\* SpecRedeem draws them from both methods, with any decoded invoice
AllMethods == {"lightning", "onchain"}
Invoices == [amount_sats : {0} \cup Amounts, expired : BOOLEAN]
\* how the node's payment call ends: a terminal status, or an error of the call
PaymentResults == {"succeeded", "failed", "error"}
\* TransactionStatus
TransactionStatuses == {"pending", "confirmed", "failed"}
TreasuryStart == {10000, 40000}
\* on-chain amounts around the dust limit and at the redemption minimum
OnChainAmounts == {545, 546, 10000}
NoCache == -1
NoCard == 0

VARIABLES
    cards,          \* table cards: sequence of rows, id = index
    transactions,   \* table transactions: bag of rows [card_id, type, btc_amount_sats, status]
    stream,         \* Redis stream fund_card: sequence of entries [data, card_id, fiat_amount_cents], id = index
    delivered,      \* consumer group cursor: number of entries delivered with ">"
    pel,            \* pending entries list of the group: set of [id, consumer, idle]
    inbox,          \* per consumer: entries returned by XREADGROUP / XAUTOCLAIM, not yet dispatched
    wpc,            \* per consumer: position in Consume / handleMessage / processMessage
    wl,             \* per consumer: locals of processMessage
    cancelled,      \* per consumer: the context given to Consume is cancelled
    cardLock,       \* set of codes whose key card:lock:{code} exists
    treasuryLock,   \* key treasury:lock exists
    cache,          \* key treasury:available_sats (NoCache when absent)
    treasury,       \* node: channel local balance + confirmed wallet balance
    treasuryRead,   \* what the latest GetTreasuryAvailableBalance returned: [value, err]
    sent,           \* what the latest SendOnChain call of another client returned: [amount, tx_hash, err]
    codegen,        \* the latest code drawn by generateCardCode: [code, formattedCode]
    rpc,            \* per API request: position in RedeemCard
    rl,             \* per API request: locals of RedeemCard
    ipc,            \* per API request: position in CreateCard
    il,             \* per API request: locals of CreateCard and what it returned
    funded          \* history: per card, the satoshis of its latest activation (0: never)

vars == <<cards, transactions, stream, delivered, pel, inbox, wpc, wl, cancelled,
          cardLock, treasuryLock, cache, treasury, treasuryRead, sent, codegen,
          rpc, rl, ipc, il, funded>>

storeVars == <<cards, transactions, funded>>
queueVars == <<stream, delivered, pel, inbox>>
workerVars == <<wpc, wl, cancelled>>
redeemVars == <<rpc, rl>>
issueVars == <<ipc, il>>
cacheVars == <<cardLock, treasuryLock, cache>>

\* ----------------------------------------------------------------- helpers
CardIds == 1..Len(cards)
Codes == 1..MaxCards

RECURSIVE SetToSeq(_)
\* ids in increasing order (stream ids are monotone)
SetToSeq(S) ==
    IF S = {} THEN <<>>
    ELSE LET m == CHOOSE x \in S : \A y \in S : x <= y
         IN <<m>> \o SetToSeq(S \ {m})

FirstN(S, n) == {x \in S : Cardinality({y \in S : y < x}) < n}

\* CardRepository.GetTotalReservedBalance
ReservedOf(c) == IF c.status \in {"active", "funding"} THEN c.btc_amount_sats ELSE 0
RECURSIVE SumReserved(_)
SumReserved(s) == IF s = <<>> THEN 0 ELSE ReservedOf(Head(s)) + SumReserved(Tail(s))
GetTotalReservedBalance == SumReserved(cards)

\* Service.computeTreasuryBalance, before the negative guard
Available == treasury - GetTotalReservedBalance

\* FundCardMessage.Validate (card_id and currency are always well formed here)
Validate(msg) == msg.card_id # NoCard /\ msg.fiat_amount_cents > 0

\* processMessage: satoshis := int64(float64(cents)/100.0/price*1e8)
Satoshis(cents, price) == (cents * 1000000) \div price

\* CardRepository.Update: UPDATE cards SET status, COALESCE(sats), COALESCE(funded_at), COALESCE(redeemed_at)
NoChange == -1

\* an UPDATE that leaves redeemed_at out of its SET list
UpdateDropsRedeemedAt(id, status, sats, fundedAt, redeemedAt) ==
    [cards EXCEPT ![id] =
        [@ EXCEPT !.status = status,
                  !.btc_amount_sats = IF sats = NoChange THEN @ ELSE sats,
                  !.funded_at = IF fundedAt THEN TRUE ELSE @]]

\* an UPDATE that leaves btc_amount_sats out of its SET list
UpdateKeepsBalance(id, status, sats, fundedAt, redeemedAt) ==
    [cards EXCEPT ![id] =
        [@ EXCEPT !.status = status,
                  !.funded_at = IF fundedAt THEN TRUE ELSE @,
                  !.redeemed_at = IF redeemedAt THEN TRUE ELSE @]]

Update(id, status, sats, fundedAt, redeemedAt) ==
    [cards EXCEPT ![id] =
        [@ EXCEPT !.status = status,
                  !.btc_amount_sats = IF sats = NoChange THEN @ ELSE sats,
                  !.funded_at = IF fundedAt THEN TRUE ELSE @,
                  !.redeemed_at = IF redeemedAt THEN TRUE ELSE @]]

\* a nil pointer of the struct, a NULL of the table
Null == ""

\* TransactionRepository.Create: the INSERT lists card_id, type, tx_hash, the
\* amount and the status (and id, addresses and times, not modelled).  The
\* struct's redemption_method, payment_hash, payment_preimage and
\* lightning_invoice are not among its columns: those stay NULL in the row.
InsertedColumns(tx) ==
    [card_id |-> tx.card_id, type |-> tx.type, tx_hash |-> tx.tx_hash,
     btc_amount_sats |-> tx.btc_amount_sats, status |-> tx.status,
     redemption_method |-> Null, payment_hash |-> Null, payment_preimage |-> Null]
Create(tx) == transactions (+) SetToBag({InsertedColumns(tx)})

NoIssue == [attempt |-> 0, code |-> 0, fiat |-> 0, card |-> NoCard, result |-> "none"]
NoLocals == [msg |-> 0, card |-> NoCard, satoshis |-> 0]
\* what DecodeInvoice returns for the request's invoice (none for on-chain)
NoInvoice == [amount_sats |-> 0, expired |-> FALSE]
GoodInvoice(amount) == [amount_sats |-> amount, expired |-> FALSE]
\* paymentOutput before the payment
NoPayment == [result |-> "none", tx_hash |-> Null, payment_hash |-> Null,
              payment_preimage |-> Null, status |-> "none"]
NoRedeem == [code |-> 0, method |-> "none", amount |-> 0, invoice |-> NoInvoice,
             card |-> NoCard, balance |-> 0, pay |-> NoPayment]

\* StreamQueue.Publish: XADD with Values {"data": payload}; the entry is written
\* here with the fields of its decoded FundCardMessage
FundCardEntry(card, fiat) == [data |-> TRUE, card_id |-> card, fiat_amount_cents |-> fiat]
\* an entry whose Values have no "data" key (or one that is not a string)
NoDataEntry == [data |-> FALSE, card_id |-> NoCard, fiat_amount_cents |-> 0]

NoCode == [code |-> <<>>, formattedCode |-> <<>>]
NoSend == [amount |-> 0, tx_hash |-> Null, err |-> "nil"]

\* ------------------------------------------------------------------- Init
Init ==
    /\ cards = <<>>
    /\ transactions = EmptyBag
    /\ stream = <<>>
    /\ delivered = 0
    /\ pel = {}
    /\ inbox = [w \in Workers |-> <<>>]
    /\ wpc = [w \in Workers |-> "loop"]
    /\ wl = [w \in Workers |-> NoLocals]
    /\ cancelled = [w \in Workers |-> FALSE]
    /\ cardLock = {}
    /\ treasuryLock = FALSE
    /\ cache = NoCache
    /\ treasury \in TreasuryStart
    /\ treasuryRead = [value |-> 0, err |-> "nil"]
    /\ sent = NoSend
    /\ codegen = NoCode
    /\ rpc = [r \in Redeemers |-> "idle"]
    /\ rl = [r \in Redeemers |-> NoRedeem]
    /\ ipc = [i \in Issuers |-> "idle"]
    /\ il = [i \in Issuers |-> NoIssue]
    /\ funded = [c \in 1..MaxIssued |-> 0]

\* ------------------------------------------------------------- card service
\* Service.CreateCard: insert the card, then publish FundCardMessage; a publish
\* failure is logged and the card stays.
CreateCard(fiat, published) ==
    /\ Len(cards) < MaxCards
    /\ cards' = Append(cards, [code |-> Len(cards) + 1,
                               status |-> "created", btc_amount_sats |-> 0,
                               fiat_amount_cents |-> fiat,
                               funded_at |-> FALSE, redeemed_at |-> FALSE])
    /\ stream' = IF published
                 THEN Append(stream, FundCardEntry(Len(cards) + 1, fiat))
                 ELSE stream
    /\ UNCHANGED <<transactions, funded, delivered, pel, inbox, workerVars,
                   cacheVars, treasury, treasuryRead, issueVars, sent, codegen, redeemVars>>

\* The same handler step by step, for calls that run side by side.
\* CardRepository.GetByCode finds a row
CodeExists(code) == \E c \in CardIds : cards[c].code = code

InIssue == {i \in Issuers : ipc[i] # "idle"}

\* CreateCard returns an error
IssueFails(i) ==
    /\ ipc' = [ipc EXCEPT ![i] = "idle"]
    /\ il' = [il EXCEPT ![i].result = "err"]

\* a CreateCard call arrives
BeginCreateCard(i, fiat) ==
    /\ ipc[i] = "idle"
    /\ Len(cards) + Cardinality(InIssue) < MaxIssued
    /\ ipc' = [ipc EXCEPT ![i] = "generate"]
    /\ il' = [il EXCEPT ![i] = [NoIssue EXCEPT !.fiat = fiat]]
    /\ UNCHANGED <<storeVars, queueVars, workerVars, cacheVars, treasury, treasuryRead, sent, codegen,
                   redeemVars>>

\* a generateCardCode that goes on drawing codes for as long as they collide
GenerateCardCodeNoBudget(i, code, queried) ==
    /\ ipc[i] = "generate"
    /\ IF ~queried
       THEN IssueFails(i)
       ELSE IF ~CodeExists(code)
       THEN /\ il' = [il EXCEPT ![i].code = code]
            /\ ipc' = [ipc EXCEPT ![i] = "insert"]
       ELSE /\ il' = [il EXCEPT ![i].attempt = @ + 1]
            /\ ipc' = ipc
    /\ UNCHANGED <<storeVars, queueVars, workerVars, cacheVars, treasury, treasuryRead, sent, codegen,
                   redeemVars>>

\* generateCardCode, one iteration of its loop: draw a code, look it up with
\* GetByCode; not found returns the code, found goes to the next attempt and
\* after maxAttempts attempts to the error; a failed query is an error
GenerateCardCode(i, code, queried) ==
    /\ ipc[i] = "generate"
    /\ IF ~queried
       THEN IssueFails(i)
       ELSE IF ~CodeExists(code)
       THEN /\ il' = [il EXCEPT ![i].code = code]
            /\ ipc' = [ipc EXCEPT ![i] = "insert"]
       ELSE IF il[i].attempt + 1 < maxAttempts
       THEN /\ il' = [il EXCEPT ![i].attempt = @ + 1]
            /\ ipc' = ipc
       ELSE /\ il' = [il EXCEPT ![i].attempt = @ + 1, ![i].result = "err"]
            /\ ipc' = [ipc EXCEPT ![i] = "idle"]
    /\ UNCHANGED <<storeVars, queueVars, workerVars, cacheVars, treasury, treasuryRead, sent, codegen,
                   redeemVars>>

\* the row CreateCard builds
NewCard(code, fiat) ==
    [code |-> code, status |-> "created", btc_amount_sats |-> 0,
     fiat_amount_cents |-> fiat, funded_at |-> FALSE, redeemed_at |-> FALSE]

\* an INSERT into a table without the constraint cards_code_key
CardCreateNoConstraint(i, inserted) ==
    /\ ipc[i] = "insert"
    /\ IF inserted
       THEN /\ cards' = Append(cards, NewCard(il[i].code, il[i].fiat))
            /\ il' = [il EXCEPT ![i].card = Len(cards) + 1]
            /\ ipc' = [ipc EXCEPT ![i] = "publish"]
       ELSE IssueFails(i) /\ cards' = cards
    /\ UNCHANGED <<transactions, funded, queueVars, workerVars, cacheVars, treasury,
                   treasuryRead, sent, codegen, redeemVars>>

\* CardRepository.Create: the INSERT; code is UNIQUE, so a second row with the
\* code is refused (ErrCardCodeExists) and CreateCard returns the error
CardCreate(i, inserted) ==
    /\ ipc[i] = "insert"
    /\ IF inserted /\ ~CodeExists(il[i].code)
       THEN /\ cards' = Append(cards, NewCard(il[i].code, il[i].fiat))
            /\ il' = [il EXCEPT ![i].card = Len(cards) + 1]
            /\ ipc' = [ipc EXCEPT ![i] = "publish"]
       ELSE IssueFails(i) /\ cards' = cards
    /\ UNCHANGED <<transactions, funded, queueVars, workerVars, cacheVars, treasury,
                   treasuryRead, sent, codegen, redeemVars>>

\* a CreateCard that takes the card back and fails when the publish fails
PublishOrRollBack(i, published) ==
    /\ ipc[i] = "publish"
    /\ IF published
       THEN /\ stream' = Append(stream, FundCardEntry(il[i].card, il[i].fiat))
            /\ il' = [il EXCEPT ![i].result = "ok"]
            /\ cards' = cards
       ELSE /\ stream' = stream
            /\ il' = [il EXCEPT ![i].result = "err"]
            /\ cards' = SubSeq(cards, 1, il[i].card - 1)
                         \o SubSeq(cards, il[i].card + 1, Len(cards))
    /\ ipc' = [ipc EXCEPT ![i] = "idle"]
    /\ UNCHANGED <<transactions, funded, delivered, pel, inbox, workerVars, cacheVars,
                   treasury, treasuryRead, sent, codegen, redeemVars>>

\* CreateCard, lines 240-266: queue.Publish("fund_card", msg); a failure to
\* serialize or to publish is logged; the response is returned either way
PublishFundCard(i, published) ==
    /\ ipc[i] = "publish"
    /\ stream' = IF published
                 THEN Append(stream, FundCardEntry(il[i].card, il[i].fiat))
                 ELSE stream
    /\ ipc' = [ipc EXCEPT ![i] = "idle"]
    /\ il' = [il EXCEPT ![i].result = "ok"]
    /\ UNCHANGED <<storeVars, delivered, pel, inbox, workerVars, cacheVars, treasury,
                   treasuryRead, sent, codegen, redeemVars>>

\* ------------------------------------------------------------ stream queue
PendingIds == {e.id : e \in pel}
IdleIds == {e.id : e \in {x \in pel : x.idle}}
\* entries delivered to the group and no longer pending
Acked == {i \in 1..delivered : i \notin PendingIds}

\* XACK stream group id
XAck(id) == {e \in pel : e.id # id}

\* a read that starts from the beginning of the stream instead of the group's
\* last-delivered id
XReadGroupFromStart(w) ==
    /\ wpc[w] = "loop"
    /\ inbox[w] = <<>>
    /\ ~cancelled[w]
    /\ delivered < Len(stream)
    /\ LET new == FirstN(1..Len(stream), XReadCount)
       IN /\ delivered' = Len(stream)
          /\ pel' = {e \in pel : e.id \notin new}
                    \cup {[id |-> i, consumer |-> w, idle |-> FALSE] : i \in new}
          /\ inbox' = [inbox EXCEPT ![w] = SetToSeq(new)]
    /\ UNCHANGED <<storeVars, stream, workerVars, cacheVars, treasury, treasuryRead, issueVars, sent, codegen,
                   redeemVars>>

\* a read that hands over its batch newest entry first
XReadGroupNewestFirst(w) ==
    /\ wpc[w] = "loop"
    /\ inbox[w] = <<>>
    /\ ~cancelled[w]
    /\ delivered < Len(stream)
    /\ LET new == FirstN((delivered + 1)..Len(stream), XReadCount)
           batch == SetToSeq(new)
       IN /\ delivered' = delivered + Cardinality(new)
          /\ pel' = pel \cup {[id |-> i, consumer |-> w, idle |-> FALSE] : i \in new}
          /\ inbox' = [inbox EXCEPT ![w] =
                           [k \in 1..Len(batch) |-> batch[Len(batch) + 1 - k]]]
    /\ UNCHANGED <<storeVars, stream, workerVars, cacheVars, treasury, treasuryRead, issueVars, sent, codegen,
                   redeemVars>>

\* a read that is started although the context is cancelled
XReadGroupAfterCancel(w) ==
    /\ wpc[w] = "loop"
    /\ inbox[w] = <<>>
    /\ delivered < Len(stream)
    /\ LET new == FirstN((delivered + 1)..Len(stream), XReadCount)
       IN /\ delivered' = delivered + Cardinality(new)
          /\ pel' = pel \cup {[id |-> i, consumer |-> w, idle |-> FALSE] : i \in new}
          /\ inbox' = [inbox EXCEPT ![w] = SetToSeq(new)]
    /\ UNCHANGED <<storeVars, stream, workerVars, cacheVars, treasury, treasuryRead, issueVars, sent, codegen,
                   redeemVars>>

\* StreamQueue.Consume, doWork: XREADGROUP ">" COUNT 10 hands the consumer the
\* entries never delivered to the group and puts them in the pending list.
XReadGroup(w) ==
    /\ wpc[w] = "loop"
    /\ inbox[w] = <<>>
    /\ ~cancelled[w]
    /\ delivered < Len(stream)
    /\ LET new == FirstN((delivered + 1)..Len(stream), XReadCount)
       IN /\ delivered' = delivered + Cardinality(new)
          /\ pel' = pel \cup {[id |-> i, consumer |-> w, idle |-> FALSE] : i \in new}
          /\ inbox' = [inbox EXCEPT ![w] = SetToSeq(new)]
    /\ UNCHANGED <<storeVars, stream, workerVars, cacheVars, treasury, treasuryRead, issueVars, sent, codegen, redeemVars>>

\* a reclaim that re-reads the consumer's own pending entries only
ReclaimOwnOnly(w) ==
    /\ wpc[w] = "loop"
    /\ inbox[w] = <<>>
    /\ ~cancelled[w]
    /\ LET claim == FirstN({e.id : e \in {x \in pel : x.idle /\ x.consumer = w}},
                           XAutoClaimCount)
       IN /\ claim # {}
          /\ pel' = {e \in pel : e.id \notin claim}
                    \cup {[id |-> i, consumer |-> w, idle |-> FALSE] : i \in claim}
          /\ inbox' = [inbox EXCEPT ![w] = SetToSeq(claim)]
    /\ UNCHANGED <<storeVars, stream, delivered, workerVars, cacheVars, treasury, treasuryRead, issueVars, sent, codegen, redeemVars>>

\* StreamQueue.reclaimPendingMessages: XAUTOCLAIM MinIdle 5m Start 0-0 COUNT 100
\* reassigns every pending entry idle for longer than the threshold, whoever
\* owns it, and resets its idle time.  The loop counter that schedules the call
\* (every 10th iteration) is abstracted: empty reads advance it freely.
ReclaimPendingMessages(w) ==
    /\ wpc[w] = "loop"
    /\ inbox[w] = <<>>
    /\ ~cancelled[w]
    /\ LET claim == FirstN(IdleIds, XAutoClaimCount)
       IN /\ claim # {}
          /\ pel' = {e \in pel : e.id \notin claim}
                    \cup {[id |-> i, consumer |-> w, idle |-> FALSE] : i \in claim}
          /\ inbox' = [inbox EXCEPT ![w] = SetToSeq(claim)]
    /\ UNCHANGED <<storeVars, stream, delivered, workerVars, cacheVars, treasury, treasuryRead, issueVars, sent, codegen, redeemVars>>

\* A pending entry has not been delivered for longer than MinIdle (5 minutes).
IdleElapse(id) ==
    /\ \E e \in pel : e.id = id /\ ~e.idle
    /\ pel' = {IF e.id = id THEN [e EXCEPT !.idle = TRUE] ELSE e : e \in pel}
    /\ UNCHANGED <<storeVars, stream, delivered, inbox, workerVars, cacheVars,
                   treasury, treasuryRead, issueVars, sent, codegen, redeemVars>>

\* the handler returns nil to handleMessage
ReturnNil(w) ==
    /\ pel' = pel
    /\ inbox' = inbox
    /\ wpc' = [wpc EXCEPT ![w] = "nil"]
    /\ wl' = wl

\* the handler returns an error to handleMessage
ReturnErr(w) ==
    /\ pel' = pel
    /\ inbox' = inbox
    /\ wpc' = [wpc EXCEPT ![w] = "err"]
    /\ wl' = wl

\* handleMessage that acknowledges whatever the handler returned
HandleMessageAckAlways(w) ==
    /\ wpc[w] \in {"nil", "err"}
    /\ pel' = XAck(Head(inbox[w]))
    /\ inbox' = [inbox EXCEPT ![w] = Tail(@)]
    /\ wpc' = [wpc EXCEPT ![w] = "loop"]
    /\ wl' = [wl EXCEPT ![w] = NoLocals]
    /\ UNCHANGED <<storeVars, stream, delivered, cacheVars, treasury, treasuryRead, issueVars, sent, codegen, cancelled, redeemVars>>

\* StreamQueue.handleMessage after the handler returned: XACK when it returned
\* nil, a log line when it returned an error; then the next entry of the batch
HandleMessage(w) ==
    /\ wpc[w] \in {"nil", "err"}
    /\ pel' = IF wpc[w] = "nil" THEN XAck(Head(inbox[w])) ELSE pel
    /\ inbox' = [inbox EXCEPT ![w] = Tail(@)]
    /\ wpc' = [wpc EXCEPT ![w] = "loop"]
    /\ wl' = [wl EXCEPT ![w] = NoLocals]
    /\ UNCHANGED <<storeVars, stream, delivered, cacheVars, treasury, treasuryRead, issueVars, sent, codegen, cancelled, redeemVars>>

\* some other client of the store adds an entry without a "data" field
XAddNoData ==
    /\ Len(stream) < MaxStream
    /\ stream' = Append(stream, NoDataEntry)
    /\ UNCHANGED <<storeVars, delivered, pel, inbox, workerVars, cacheVars, treasury,
                   treasuryRead, issueVars, sent, codegen, redeemVars>>

\* a handleMessage that returns on a malformed entry without acknowledging it
DropWithoutAck(w) ==
    /\ wpc[w] = "loop"
    /\ inbox[w] # <<>>
    /\ ~stream[Head(inbox[w])].data
    /\ pel' = pel
    /\ inbox' = [inbox EXCEPT ![w] = Tail(@)]
    /\ UNCHANGED <<storeVars, stream, delivered, workerVars, cacheVars, treasury,
                   treasuryRead, issueVars, sent, codegen, redeemVars>>

\* handleMessage, lines 427-439: an entry with no "data" field, or whose data is
\* not a string, is logged and acknowledged; the handler is not called
DropMalformed(w) ==
    /\ wpc[w] = "loop"
    /\ inbox[w] # <<>>
    /\ ~stream[Head(inbox[w])].data
    /\ pel' = XAck(Head(inbox[w]))
    /\ inbox' = [inbox EXCEPT ![w] = Tail(@)]
    /\ UNCHANGED <<storeVars, stream, delivered, workerVars, cacheVars, treasury,
                   treasuryRead, issueVars, sent, codegen, redeemVars>>

\* the context given to Consume is cancelled (the process got SIGINT or SIGTERM)
Cancel(w) ==
    /\ ~cancelled[w]
    /\ wpc[w] # "dead"
    /\ cancelled' = [cancelled EXCEPT ![w] = TRUE]
    /\ UNCHANGED <<storeVars, queueVars, wpc, wl, cacheVars, treasury, treasuryRead,
                   issueVars, sent, codegen, redeemVars>>

\* Consume, lines 381-384: at the top of an iteration ctx.Done() is ready, the
\* default case is not taken and Consume returns nil
ConsumeReturns(w) ==
    /\ wpc[w] = "loop"
    /\ inbox[w] = <<>>
    /\ cancelled[w]
    /\ wpc' = [wpc EXCEPT ![w] = "stopped"]
    /\ UNCHANGED <<storeVars, queueVars, wl, cancelled, cacheVars, treasury, treasuryRead,
                   issueVars, sent, codegen, redeemVars>>

\* doWork, lines 364-371: XREADGROUP fails with a transport error; doWork logs
\* it and returns it to the loop
ReadFails(w) ==
    /\ wpc[w] = "loop"
    /\ inbox[w] = <<>>
    /\ ~cancelled[w]
    /\ wpc' = [wpc EXCEPT ![w] = "readerr"]
    /\ UNCHANGED <<storeVars, queueVars, wl, cancelled, cacheVars, treasury, treasuryRead,
                   issueVars, sent, codegen, redeemVars>>

\* a loop that returns the error of doWork to its caller
ConsumeReturnsError(w) ==
    /\ wpc[w] = "readerr"
    /\ wpc' = [wpc EXCEPT ![w] = "stopped"]
    /\ UNCHANGED <<storeVars, queueVars, wl, cancelled, cacheVars, treasury, treasuryRead,
                   issueVars, sent, codegen, redeemVars>>

\* Consume, lines 390-392: the error of doWork is logged and the loop goes to
\* its next iteration
NextIteration(w) ==
    /\ wpc[w] = "readerr"
    /\ wpc' = [wpc EXCEPT ![w] = "loop"]
    /\ UNCHANGED <<storeVars, queueVars, wl, cancelled, cacheVars, treasury, treasuryRead,
                   issueVars, sent, codegen, redeemVars>>

\* ----------------------------------------------------------- fund_card worker
\* processMessage without the status test of lines 242-245: every valid message
\* goes on to the funding update
FetchCardNoSkip(w) ==
    /\ wpc[w] = "loop"
    /\ inbox[w] # <<>>
    /\ stream[Head(inbox[w])].data
    /\ LET m == Head(inbox[w])
           msg == stream[m]
       IN \/ /\ ~Validate(msg)
             /\ ReturnErr(w)
          \/ /\ Validate(msg)
             /\ wpc' = [wpc EXCEPT ![w] = "lease"]
             /\ wl' = [wl EXCEPT ![w] = [msg |-> m, card |-> msg.card_id, satoshis |-> 0]]
             /\ UNCHANGED <<pel, inbox>>
    /\ UNCHANGED <<storeVars, stream, delivered, cacheVars, treasury, treasuryRead, issueVars, sent, codegen, cancelled, redeemVars>>

\* processMessage, lines 230-245: deserialize, load the card, skip unless created
FetchCard(w) ==
    /\ wpc[w] = "loop"
    /\ inbox[w] # <<>>
    /\ stream[Head(inbox[w])].data
    /\ LET m == Head(inbox[w])
           msg == stream[m]
       IN \/ /\ ~Validate(msg)
             /\ ReturnErr(w)
          \/ /\ Validate(msg)
             /\ cards[msg.card_id].status # "created"
             /\ ReturnNil(w)
          \/ /\ Validate(msg)
             /\ cards[msg.card_id].status = "created"
             /\ wpc' = [wpc EXCEPT ![w] = "lease"]
             /\ wl' = [wl EXCEPT ![w] = [msg |-> m, card |-> msg.card_id, satoshis |-> 0]]
             /\ UNCHANGED <<pel, inbox>>
    /\ UNCHANGED <<storeVars, stream, delivered, cacheVars, treasury, treasuryRead, issueVars, sent, codegen, cancelled, redeemVars>>

\* processMessage, lines 247-251: cardRepo.Update(id, Funding, nil, nil, nil);
\* a failed statement returns an error
SetFunding(w, updated) ==
    /\ wpc[w] = "lease"
    /\ IF updated
       THEN /\ cards' = Update(wl[w].card, "funding", NoChange, FALSE, FALSE)
            /\ wpc' = [wpc EXCEPT ![w] = "price"]
            /\ UNCHANGED <<queueVars, wl>>
       ELSE /\ ReturnErr(w)
            /\ UNCHANGED <<cards, stream, delivered>>
    /\ UNCHANGED <<transactions, funded, cacheVars, treasury, treasuryRead, issueVars, sent, codegen, cancelled, redeemVars>>

\* processMessage, lines 253-267: provider.GetPrice and the satoshi amount
GetPrice(w) ==
    /\ wpc[w] = "price"
    /\ \/ ReturnErr(w)                                   \* price provider failed
       \/ \E price \in Prices :
            LET sats == Satoshis(stream[wl[w].msg].fiat_amount_cents, price)
            IN IF sats <= 0
               THEN ReturnNil(w)                         \* permanent, acknowledged
               ELSE /\ wl' = [wl EXCEPT ![w].satoshis = sats]
                    /\ wpc' = [wpc EXCEPT ![w] = "activate"]
                    /\ UNCHANGED <<pel, inbox>>
    /\ UNCHANGED <<storeVars, stream, delivered, cacheVars, treasury, treasuryRead, issueVars, sent, codegen, cancelled, redeemVars>>

\* processMessage, lines 306-311: cardRepo.Update(id, Active, &satoshis, &now, nil);
\* a failed statement returns an error
Activate(w, updated) ==
    /\ wpc[w] = "activate"
    /\ IF updated
       THEN /\ cards' = Update(wl[w].card, "active", wl[w].satoshis, TRUE, FALSE)
            /\ funded' = [funded EXCEPT ![wl[w].card] = wl[w].satoshis]
            /\ wpc' = [wpc EXCEPT ![w] = "fundtx"]
            /\ UNCHANGED <<queueVars, wl>>
       ELSE /\ ReturnErr(w)
            /\ UNCHANGED <<cards, funded, stream, delivered>>
    /\ UNCHANGED <<transactions, cacheVars, treasury, treasuryRead, issueVars, sent, codegen, cancelled, redeemVars>>

\* processMessage, lines 313-331: the fund transaction (a failed insert is only
\* logged), then return nil
FundTransaction(w, inserted) ==
    /\ wpc[w] = "fundtx"
    /\ transactions' =
         IF inserted
         THEN Create([card_id |-> wl[w].card, type |-> "fund",
                      redemption_method |-> Null, tx_hash |-> Null,
                      payment_hash |-> Null, payment_preimage |-> Null,
                      btc_amount_sats |-> wl[w].satoshis, status |-> "confirmed"])
         ELSE transactions
    /\ ReturnNil(w)
    /\ UNCHANGED <<cards, funded, stream, delivered, cacheVars, treasury, treasuryRead, issueVars, sent, codegen, cancelled, redeemVars>>

\* The consumer process dies while it holds entries; what it was delivered stays
\* in the pending list.
Crash(w) ==
    /\ wpc[w] # "dead"
    /\ wpc[w] # "loop" \/ inbox[w] # <<>>
    /\ wpc' = [wpc EXCEPT ![w] = "dead"]
    /\ wl' = [wl EXCEPT ![w] = NoLocals]
    /\ inbox' = [inbox EXCEPT ![w] = <<>>]
    /\ UNCHANGED <<storeVars, stream, delivered, pel, cacheVars, treasury, treasuryRead, issueVars, sent, codegen, cancelled, redeemVars>>

\* run: a worker process is started in place of the dead one and joins the group
Restart(w) ==
    /\ wpc[w] = "dead"
    /\ wpc' = [wpc EXCEPT ![w] = "loop"]
    /\ UNCHANGED <<storeVars, queueVars, wl, cacheVars, treasury, treasuryRead, issueVars, sent, codegen, cancelled, redeemVars>>

\* ----------------------------------------------------------------- redemption
InFlight(r) == rpc[r] # "idle"

\* a return that leaves the lock key to its TTL
ReturnKeepsLock(r) ==
    /\ rpc' = [rpc EXCEPT ![r] = "idle"]
    /\ rl' = [rl EXCEPT ![r] = NoRedeem]
    /\ cardLock' = cardLock

\* RedeemCard returns: the deferred cache.Delete(lockKey) runs on every exit
\* after the lock was taken
Return(r) ==
    /\ rpc' = [rpc EXCEPT ![r] = "idle"]
    /\ rl' = [rl EXCEPT ![r] = NoRedeem]
    /\ cardLock' = cardLock \ {rl[r].code}

\* cache.SetNX(key): TRUE iff the key was absent
SetNX(locks, key) == key \notin locks

\* RedeemCard, lines 299-313: validateRedeemRequest, then SetNX(card:lock:{code}, TTL 10s);
\* when the key exists the call returns "card is being processed by another request"
RedeemCard(r, code, method, amount, invoice) ==
    /\ rpc[r] = "idle"
    /\ BagCardinality(transactions) < MaxTx
    /\ amount > 0
    /\ SetNX(cardLock, code)
    /\ cardLock' = cardLock \cup {code}
    /\ rpc' = [rpc EXCEPT ![r] = "validate"]
    /\ rl' = [rl EXCEPT ![r] = [code |-> code, method |-> method, amount |-> amount,
                                invoice |-> IF method = "lightning" THEN invoice ELSE NoInvoice,
                                card |-> NoCard, balance |-> 0, pay |-> NoPayment]]
    /\ UNCHANGED <<storeVars, queueVars, workerVars, treasuryLock, cache, treasury, treasuryRead, issueVars, sent, codegen>>

\* a validateCardForRedemption without the balance test of lines 404-406
ValidateStatusOnly(r) ==
    /\ rpc[r] = "validate"
    /\ LET code == rl[r].code
       IN IF \/ code \notin CardIds
             \/ cards[code].status # "active"
          THEN Return(r)
          ELSE /\ rl' = [rl EXCEPT ![r].card = code,
                                   ![r].balance = cards[code].btc_amount_sats]
               /\ rpc' = [rpc EXCEPT ![r] = "pay"]
               /\ UNCHANGED cardLock
    /\ UNCHANGED <<storeVars, queueVars, workerVars, treasuryLock, cache, treasury, treasuryRead, issueVars, sent, codegen>>

\* validateCardForRedemption: GetCardByCode, status must be active, amount <= balance
ValidateCardForRedemption(r) ==
    /\ rpc[r] = "validate"
    /\ LET code == rl[r].code
       IN IF \/ code \notin CardIds
             \/ cards[code].status # "active"
             \/ rl[r].amount > cards[code].btc_amount_sats
          THEN Return(r)
          ELSE /\ rl' = [rl EXCEPT ![r].card = code,
                                   ![r].balance = cards[code].btc_amount_sats]
               /\ rpc' = [rpc EXCEPT ![r] = "pay"]
               /\ UNCHANGED cardLock
    /\ UNCHANGED <<storeVars, queueVars, workerVars, treasuryLock, cache, treasury, treasuryRead, issueVars, sent, codegen>>

\* an invoice check that does not look at the expiry
InvoiceAcceptedIgnoringExpiry(invoice, amount) ==
    /\ invoice.amount_sats # 0
    /\ invoice.amount_sats = amount

\* executeLightningPayment, lines 442-452: the decoded invoice is refused when it
\* has no amount, is expired, or is for another amount than the request
InvoiceAccepted(invoice, amount) ==
    /\ invoice.amount_sats # 0
    /\ ~invoice.expired
    /\ invoice.amount_sats = amount

\* an executeOnChainPayment that leaves the minimum to the node's dust check
OnChainAcceptedAboveDust(amount) == amount >= dustLimit

\* executeOnChainPayment, lines 492-494
OnChainAccepted(amount) == amount >= minOnChainAmountSats

\* Client.SendOnChain: an amount below the dust limit is refused before the
\* node is called; otherwise the answer is SendCoins' (txid or error)
SendOnChain(amount, answered) ==
    IF amount < dustLimit
    THEN [tx_hash |-> Null, err |-> "below dust limit"]
    ELSE IF answered
         THEN [tx_hash |-> "txid", err |-> "nil"]
         ELSE [tx_hash |-> Null, err |-> "failed to send on-chain"]

\* the node paid: PayInvoice reported SUCCEEDED, or SendOnChain returned a txid
NodePays(r, result) ==
    IF rl[r].method = "lightning"
    THEN result = "succeeded"
    ELSE SendOnChain(rl[r].amount, result = "succeeded").err = "nil"

\* the checks of executePayment that come before the node is asked to pay
PaymentAccepted(r) ==
    IF rl[r].method = "lightning"
    THEN InvoiceAccepted(rl[r].invoice, rl[r].amount)
    ELSE OnChainAccepted(rl[r].amount)

\* paymentOutput.Status: Lightning settles at once, on-chain is confirmed later
PaymentStatus(method) == IF method = "lightning" THEN "confirmed" ELSE "pending"

\* the paymentOutput of executeLightningPayment (lines 470-477) and of
\* executeOnChainPayment (lines 508-512) from what the node returned
PaymentOutput(method, result) ==
    IF method = "lightning"
    THEN [result |-> result, tx_hash |-> Null,
          payment_hash |-> "payment_hash",
          payment_preimage |-> IF result = "succeeded" THEN "preimage" ELSE Null,
          status |-> PaymentStatus(method)]
    ELSE [result |-> result, tx_hash |-> "txid", payment_hash |-> Null,
          payment_preimage |-> Null, status |-> PaymentStatus(method)]

\* an executePayment that goes on whatever terminal status the node reports
ExecutePaymentAnyStatus(r, result) ==
    /\ rpc[r] = "pay"
    /\ IF /\ PaymentAccepted(r)
          /\ result # "error"
          /\ treasury >= rl[r].amount
       THEN /\ treasury' = IF result = "succeeded" THEN treasury - rl[r].amount ELSE treasury
            /\ rpc' = [rpc EXCEPT ![r] = "record"]
            /\ rl' = [rl EXCEPT ![r].pay = PaymentOutput(rl[r].method, result)]
            /\ UNCHANGED cardLock
       ELSE Return(r) /\ treasury' = treasury
    /\ UNCHANGED <<storeVars, queueVars, workerVars, treasuryLock, cache, treasuryRead, issueVars, sent, codegen>>

\* executePayment: after the checks the node is asked to pay (PayInvoice or
\* SendOnChain); an error of the call or a status other than succeeded fails the
\* redemption.  The node cannot send more than it holds.
ExecutePayment(r, result) ==
    /\ rpc[r] = "pay"
    /\ IF /\ PaymentAccepted(r)
          /\ NodePays(r, result)
          /\ treasury >= rl[r].amount
       THEN /\ treasury' = treasury - rl[r].amount
            /\ rpc' = [rpc EXCEPT ![r] = "record"]
            /\ rl' = [rl EXCEPT ![r].pay = PaymentOutput(rl[r].method, result)]
            /\ UNCHANGED cardLock
       ELSE Return(r) /\ treasury' = treasury
    /\ UNCHANGED <<storeVars, queueVars, workerVars, treasuryLock, cache, treasuryRead, issueVars, sent, codegen>>

\* recordRedemptionTransaction, lines 523-540: the row built from the request
\* and the payment output; it is what the response reports
RedeemRow(r) ==
    [card_id |-> rl[r].card, type |-> "redeem", redemption_method |-> rl[r].method,
     tx_hash |-> rl[r].pay.tx_hash, payment_hash |-> rl[r].pay.payment_hash,
     payment_preimage |-> rl[r].pay.payment_preimage,
     btc_amount_sats |-> rl[r].amount, status |-> rl[r].pay.status]

\* a recordRedemptionTransaction that only logs a failed insert and goes on
RecordIgnoresFailure(r, inserted) ==
    /\ rpc[r] = "record"
    /\ transactions' = IF inserted THEN Create(RedeemRow(r)) ELSE transactions
    /\ rpc' = [rpc EXCEPT ![r] = "debit"]
    /\ UNCHANGED <<cardLock, rl>>
    /\ UNCHANGED <<cards, funded, queueVars, workerVars, treasuryLock, cache, treasury, treasuryRead, issueVars, sent, codegen>>

\* recordRedemptionTransaction: txRepo.Create of the redeem row
RecordRedemptionTransaction(r, inserted) ==
    /\ rpc[r] = "record"
    /\ IF inserted
       THEN /\ transactions' = Create(RedeemRow(r))
            /\ rpc' = [rpc EXCEPT ![r] = "debit"]
            /\ UNCHANGED <<cardLock, rl>>
       ELSE Return(r) /\ transactions' = transactions
    /\ UNCHANGED <<cards, funded, queueVars, workerVars, treasuryLock, cache, treasury, treasuryRead, issueVars, sent, codegen>>

\* updateCardBalance: remaining := currentBalance - spendAmount from the card
\* read in step 3; redeemed when it is zero
UpdateCardBalance(r, updated) ==
    /\ rpc[r] = "debit"
    /\ IF updated
       THEN LET remaining == rl[r].balance - rl[r].amount
            IN /\ cards' = Update(rl[r].card,
                                  IF remaining = 0 THEN "redeemed" ELSE "active",
                                  remaining, FALSE, remaining = 0)
               /\ rpc' = [rpc EXCEPT ![r] = "finish"]
               /\ UNCHANGED <<cardLock, rl>>
       ELSE Return(r) /\ cards' = cards
    /\ UNCHANGED <<transactions, funded, queueVars, workerVars, treasuryLock, cache, treasury, treasuryRead, issueVars, sent, codegen>>

\* RedeemCard, lines 340-365: InvalidateTreasuryCache, publish the monitor
\* message, return the response
RedeemFinish(r) ==
    /\ rpc[r] = "finish"
    /\ cache' = NoCache
    /\ Return(r)
    /\ UNCHANGED <<storeVars, queueVars, workerVars, treasuryLock, treasury, treasuryRead, issueVars, sent, codegen>>

\* cardLockTTL (10 s) runs out while the call that set the key is still running
CardLockExpire(code) ==
    /\ code \in cardLock
    /\ cardLock' = cardLock \ {code}
    /\ UNCHANGED <<storeVars, queueVars, workerVars, treasuryLock, cache, treasury, treasuryRead, issueVars, sent, codegen, redeemVars>>

\* ------------------------------------------------------------------- treasury
\* Service.AcquireTreasuryLock, by some process reserving treasury balance
AcquireTreasuryLock ==
    /\ ~treasuryLock
    /\ treasuryLock' = TRUE
    /\ UNCHANGED <<storeVars, queueVars, workerVars, cardLock, cache, treasury, treasuryRead, issueVars, sent, codegen, redeemVars>>

\* Service.ReleaseTreasuryLock, or treasuryLockTTL (5 s) running out
ReleaseTreasuryLock ==
    /\ treasuryLock
    /\ treasuryLock' = FALSE
    /\ UNCHANGED <<storeVars, queueVars, workerVars, cardLock, cache, treasury, treasuryRead, issueVars, sent, codegen, redeemVars>>

\* a computeTreasuryBalance without the negative guard of lines 129-135
ComputeUnguarded(answered) ==
    IF ~answered THEN [value |-> 0, err |-> "failed to get balance"]
    ELSE [value |-> Available, err |-> "nil"]

\* Service.computeTreasuryBalance: the node's balances minus the reserved
\* balance of the cards; an RPC or query that fails, or a negative result, is
\* returned as (0, error)
ComputeTreasuryBalance(answered) ==
    IF ~answered THEN [value |-> 0, err |-> "failed to get balance"]
    ELSE IF Available < 0 THEN [value |-> 0, err |-> "ErrInsufficientBalance"]
    ELSE [value |-> Available, err |-> "nil"]

\* Service.GetTreasuryAvailableBalance: the cached value when the key exists,
\* else the computed one, which is then cached (FormatInt and ParseInt of an
\* int64 are inverse to each other; a failed Set is only logged)
GetTreasuryAvailableBalance(answered, cached) ==
    /\ IF cache # NoCache
       THEN /\ treasuryRead' = [value |-> cache, err |-> "nil"]
            /\ cache' = cache
       ELSE LET computed == ComputeTreasuryBalance(answered)
            IN /\ treasuryRead' = computed
               /\ cache' = IF computed.err = "nil" /\ cached THEN computed.value ELSE cache
    /\ UNCHANGED <<storeVars, queueVars, workerVars, cardLock, treasuryLock, treasury,
                   redeemVars, issueVars, sent, codegen>>

\* treasuryAvailableCacheTTL (10 s) runs out
CacheExpire ==
    /\ cache # NoCache
    /\ cache' = NoCache
    /\ UNCHANGED <<storeVars, queueVars, workerVars, cardLock, treasuryLock, treasury,
                   treasuryRead, issueVars, sent, codegen, redeemVars>>

\* TransactionRepository.Update: UPDATE transactions SET status, confirmations,
\* COALESCE(broadcast_at), COALESCE(confirmed_at) WHERE id = $1, for the id of a
\* stored row (the count and the times are not modelled); whatever the row's
\* status is, the statement rewrites it
TransactionUpdate(row, status) ==
    /\ CopiesIn(row, transactions) > 0
    /\ transactions' = (transactions (-) SetToBag({row}))
                           (+) SetToBag({[row EXCEPT !.status = status]})
    /\ UNCHANGED <<cards, funded, queueVars, workerVars, cacheVars, treasury, treasuryRead, issueVars, sent, codegen,
                   redeemVars>>

\* ----------------------------------------------------------------------- Next
QueueStep ==
    \/ \E w \in Workers : XReadGroup(w)
    \/ \E w \in Workers : ReclaimPendingMessages(w)
    \/ \E id \in 1..MaxCards : IdleElapse(id)

WorkerStep ==
    \/ \E w \in Workers : FetchCard(w)
    \/ \E w \in Workers, updated \in BOOLEAN : SetFunding(w, updated)
    \/ \E w \in Workers : GetPrice(w)
    \/ \E w \in Workers, updated \in BOOLEAN : Activate(w, updated)
    \/ \E w \in Workers, inserted \in BOOLEAN : FundTransaction(w, inserted)
    \/ \E w \in Workers : HandleMessage(w)

ProcessStep ==
    \/ \E w \in Workers : Crash(w)
    \/ \E w \in Workers : Restart(w)

RedeemProgress ==
    \/ \E r \in Redeemers : ValidateCardForRedemption(r)
    \/ \E r \in Redeemers, result \in PaymentResults : ExecutePayment(r, result)
    \/ \E r \in Redeemers, inserted \in BOOLEAN : RecordRedemptionTransaction(r, inserted)
    \/ \E r \in Redeemers, updated \in BOOLEAN : UpdateCardBalance(r, updated)
    \/ \E r \in Redeemers : RedeemFinish(r)
    \/ \E code \in Codes : CardLockExpire(code)

RedeemStep ==
    \/ \E r \in Redeemers, code \in Codes, method \in RedeemMethods, amount \in Amounts :
         RedeemCard(r, code, method, amount, GoodInvoice(amount))
    \/ RedeemProgress

TreasuryLockStep ==
    \/ AcquireTreasuryLock
    \/ ReleaseTreasuryLock

\* issuance, the funding workers and the redemption path; a consumer that is
\* slow stands for one that died, since a reclaim takes its entries either way
Next ==
    \/ \E fiat \in FiatAmounts, published \in BOOLEAN : CreateCard(fiat, published)
    \/ QueueStep
    \/ WorkerStep
    \/ RedeemStep

Spec == Init /\ [][Next]_vars

\* issuance and the funding workers beside a process that reserves treasury
\* balance under treasury:lock
NextFunding ==
    \/ \E fiat \in FiatAmounts, published \in BOOLEAN : CreateCard(fiat, published)
    \/ QueueStep
    \/ WorkerStep
    \/ ProcessStep
    \/ TreasuryLockStep

SpecFunding == Init /\ [][NextFunding]_vars

\* One consumer may die and is not replaced; the other keeps running Consume:
\* its loop is sequential, so each step it can take it eventually takes, the
\* price provider answers, and idle time keeps growing.
LiveWorker == "w2"
MortalWorker == "w1"

NextLive ==
    \/ \E fiat \in FiatAmounts, published \in BOOLEAN : CreateCard(fiat, published)
    \/ QueueStep
    \/ WorkerStep
    \/ Crash(MortalWorker)

FairLive ==
    /\ \A id \in 1..MaxCards : WF_vars(IdleElapse(id))
    /\ WF_vars(XReadGroup(LiveWorker))
    /\ WF_vars(ReclaimPendingMessages(LiveWorker))
    /\ WF_vars(FetchCard(LiveWorker))
    /\ WF_vars(\E updated \in BOOLEAN : SetFunding(LiveWorker, updated))
    /\ WF_vars(GetPrice(LiveWorker))
    /\ WF_vars(\E updated \in BOOLEAN : Activate(LiveWorker, updated))
    /\ WF_vars(\E inserted \in BOOLEAN : FundTransaction(LiveWorker, inserted))
    /\ WF_vars(HandleMessage(LiveWorker))

SpecLive == Init /\ [][NextLive]_vars /\ FairLive

\* One consumer funds the cards; redemptions by either method, with any invoice
NextRedeem ==
    \/ \E fiat \in FiatAmounts, published \in BOOLEAN : CreateCard(fiat, published)
    \/ XReadGroup(LiveWorker)
    \/ FetchCard(LiveWorker)
    \/ \E updated \in BOOLEAN : SetFunding(LiveWorker, updated)
    \/ GetPrice(LiveWorker)
    \/ \E updated \in BOOLEAN : Activate(LiveWorker, updated)
    \/ \E inserted \in BOOLEAN : FundTransaction(LiveWorker, inserted)
    \/ HandleMessage(LiveWorker)
    \/ \E r \in Redeemers, code \in Codes, method \in AllMethods, amount \in Amounts,
          invoice \in Invoices : RedeemCard(r, code, method, amount, invoice)
    \/ RedeemProgress

SpecRedeem == Init /\ [][NextRedeem]_vars

\* The consumers on a stream that other clients write to as well
MalformedStep ==
    \/ XAddNoData
    \/ \E w \in Workers : DropMalformed(w)
    \/ \E id \in 1..MaxStream : IdleElapse(id)

NextMalformed ==
    \/ \E fiat \in FiatAmounts, published \in BOOLEAN : CreateCard(fiat, published)
    \/ QueueStep
    \/ WorkerStep
    \/ \E w \in Workers : Crash(w)
    \/ \E w \in Workers : Restart(w)
    \/ MalformedStep

SpecMalformed == Init /\ [][NextMalformed]_vars

\* The consumers beside transport errors of the stream store and the
\* cancellation of their contexts.  A consumer is sequential and its calls
\* come back, so each step it can take it eventually takes.
ConsumeStep ==
    \/ \E w \in Workers : Cancel(w)
    \/ \E w \in Workers : ConsumeReturns(w)
    \/ \E w \in Workers : ReadFails(w)
    \/ \E w \in Workers : NextIteration(w)

NextConsume ==
    \/ \E fiat \in FiatAmounts, published \in BOOLEAN : CreateCard(fiat, published)
    \/ QueueStep
    \/ WorkerStep
    \/ ConsumeStep

FairConsume ==
    \A w \in Workers :
        /\ WF_vars(ConsumeReturns(w))
        /\ WF_vars(NextIteration(w))
        /\ WF_vars(FetchCard(w))
        /\ WF_vars(\E updated \in BOOLEAN : SetFunding(w, updated))
        /\ WF_vars(GetPrice(w))
        /\ WF_vars(\E updated \in BOOLEAN : Activate(w, updated))
        /\ WF_vars(\E inserted \in BOOLEAN : FundTransaction(w, inserted))
        /\ WF_vars(HandleMessage(w))

SpecConsume == Init /\ [][NextConsume]_vars /\ FairConsume

\* One consumer funds the cards and one API request redeems them by Lightning,
\* beside callers that read the available treasury through its cache
TreasuryStep ==
    \/ \E answered \in BOOLEAN, cached \in BOOLEAN : GetTreasuryAvailableBalance(answered, cached)
    \/ CacheExpire

NextTreasury ==
    \/ \E fiat \in FiatAmounts, published \in BOOLEAN : CreateCard(fiat, published)
    \/ XReadGroup(LiveWorker)
    \/ FetchCard(LiveWorker)
    \/ \E updated \in BOOLEAN : SetFunding(LiveWorker, updated)
    \/ GetPrice(LiveWorker)
    \/ \E updated \in BOOLEAN : Activate(LiveWorker, updated)
    \/ \E inserted \in BOOLEAN : FundTransaction(LiveWorker, inserted)
    \/ HandleMessage(LiveWorker)
    \/ \E code \in Codes, amount \in Amounts :
          RedeemCard("r1", code, "lightning", amount, GoodInvoice(amount))
    \/ RedeemProgress
    \/ TreasuryStep

SpecTreasury == Init /\ [][NextTreasury]_vars

\* One consumer funds the cards, one API request redeems them on-chain, and
\* the confirmation tracking updates stored transactions through the repository
NextLedger ==
    \/ \E fiat \in FiatAmounts, published \in BOOLEAN : CreateCard(fiat, published)
    \/ XReadGroup(LiveWorker)
    \/ FetchCard(LiveWorker)
    \/ \E updated \in BOOLEAN : SetFunding(LiveWorker, updated)
    \/ GetPrice(LiveWorker)
    \/ \E updated \in BOOLEAN : Activate(LiveWorker, updated)
    \/ \E inserted \in BOOLEAN : FundTransaction(LiveWorker, inserted)
    \/ HandleMessage(LiveWorker)
    \/ \E code \in Codes, amount \in Amounts :
          RedeemCard("r1", code, "onchain", amount, NoInvoice)
    \/ RedeemProgress
    \/ \E row \in BagToSet(transactions), status \in TransactionStatuses :
          TransactionUpdate(row, status)

SpecLedger == Init /\ [][NextLedger]_vars

\* CreateCard calls side by side, step by step, and one consumer funding the
\* cards they store
IssueStep ==
    \/ \E i \in Issuers, fiat \in FiatAmounts : BeginCreateCard(i, fiat)
    \/ \E i \in Issuers, code \in CodeSpace, queried \in BOOLEAN :
          GenerateCardCode(i, code, queried)
    \/ \E i \in Issuers, inserted \in BOOLEAN : CardCreate(i, inserted)
    \/ \E i \in Issuers, published \in BOOLEAN : PublishFundCard(i, published)

NextIssue ==
    \/ IssueStep
    \/ XReadGroup(LiveWorker)
    \/ FetchCard(LiveWorker)
    \/ \E updated \in BOOLEAN : SetFunding(LiveWorker, updated)
    \/ GetPrice(LiveWorker)
    \/ \E updated \in BOOLEAN : Activate(LiveWorker, updated)
    \/ \E inserted \in BOOLEAN : FundTransaction(LiveWorker, inserted)
    \/ HandleMessage(LiveWorker)

SpecIssue == Init /\ [][NextIssue]_vars

\* Several consumers of the group on one stream, without reclaim and without
\* crashes, fed by one API request at a time; each consumer keeps running and
\* its calls come back
NextGroup ==
    \/ BeginCreateCard("i1", 1000)
    \/ \E code \in CodeSpace, queried \in BOOLEAN : GenerateCardCode("i1", code, queried)
    \/ \E inserted \in BOOLEAN : CardCreate("i1", inserted)
    \/ \E published \in BOOLEAN : PublishFundCard("i1", published)
    \/ \E w \in Workers : XReadGroup(w)
    \/ WorkerStep

FairGroup ==
    \A w \in Workers :
        /\ WF_vars(XReadGroup(w))
        /\ WF_vars(FetchCard(w))
        /\ WF_vars(\E updated \in BOOLEAN : SetFunding(w, updated))
        /\ WF_vars(GetPrice(w))
        /\ WF_vars(\E updated \in BOOLEAN : Activate(w, updated))
        /\ WF_vars(\E inserted \in BOOLEAN : FundTransaction(w, inserted))
        /\ WF_vars(HandleMessage(w))

SpecGroup == Init /\ [][NextGroup]_vars /\ FairGroup

\* ------------------------------------------------------------------ ledger
Rows(c, type) == {t \in BagToSet(transactions) : t.card_id = c /\ t.type = type}

RECURSIVE SumAmounts(_)
SumAmounts(rows) ==
    IF rows = {} THEN 0
    ELSE LET t == CHOOSE x \in rows : TRUE
         IN t.btc_amount_sats * CopiesIn(t, transactions) + SumAmounts(rows \ {t})

RECURSIVE CountRows(_)
CountRows(rows) ==
    IF rows = {} THEN 0
    ELSE LET t == CHOOSE x \in rows : TRUE
         IN CopiesIn(t, transactions) + CountRows(rows \ {t})

\* a call that has read the card and not yet returned
Validated(r) == rpc[r] \in {"pay", "record", "debit", "finish"}
\* a consumer that has passed the created -> funding update for its card
Leased(w) == wpc[w] \in {"price", "activate", "fundtx"}
\* nothing is in the middle of changing card c
Quiescent(c) ==
    /\ \A r \in Redeemers : ~(InFlight(r) /\ rl[r].code = c)
    /\ \A w \in Workers : ~(wpc[w] \notin {"loop", "nil", "err"} /\ wl[w].card = c)

\* ------------------------------------------------------------------ claims

\* C1: two concurrent RedeemCard calls on one card whose amounts together
\* exceed the balance B both of them read never both reach the successful
\* return; one of them fails.
C1_ConcurrentRedeemsOneSucceeds ==
    \A r1, r2 \in Redeemers :
        (/\ r1 # r2
         /\ Validated(r1) /\ Validated(r2)
         /\ rl[r1].card = rl[r2].card
         /\ rl[r1].balance = rl[r2].balance
         /\ rl[r1].amount + rl[r2].amount > rl[r1].balance)
        => ~(rpc[r1] = "finish" /\ rpc[r2] = "finish")

\* C2: the available treasury (node balance minus the balances of the cards in
\* state active or funding) is never negative.
C2_AvailableTreasuryNonNegative == Available >= 0

\* C3: for every funded card that no operation is in the middle of changing,
\* the amounts of its redeem transactions plus its balance equal the amount it
\* was funded with.
C3_RedeemedPlusBalanceIsFunded ==
    \A c \in CardIds :
        (cards[c].funded_at /\ Quiescent(c))
        => SumAmounts(Rows(c, "redeem")) + cards[c].btc_amount_sats = funded[c]

\* C4: a card's balance is never negative, and once the card has been
\* activated no step increases its balance until it is redeemed.
C4_BalanceNeverIncreases ==
    [][\A c \in CardIds :
          /\ cards'[c].btc_amount_sats >= 0
          /\ (cards[c].funded_at /\ cards[c].status # "redeemed")
             => cards'[c].btc_amount_sats <= cards[c].btc_amount_sats]_vars

\* C5: the created -> funding update is a lease: at most one consumer at a
\* time is past it for a given card.
C5_FundingLeaseExclusive ==
    \A w1, w2 \in Workers :
        (w1 # w2 /\ Leased(w1) /\ Leased(w2)) => wl[w1].card # wl[w2].card

\* C6: whatever the crashes, reclaims and redeliveries, no card has more than
\* one fund transaction.
C6_AtMostOneFundTransaction ==
    \A c \in CardIds : CountRows(Rows(c, "fund")) <= 1

\* C7: redeemed and expired are terminal: no step changes the status or the
\* balance of a card that is in one of them.
C7_TerminalStatesAreFinal ==
    [][\A c \in CardIds :
          cards[c].status \in {"redeemed", "expired"}
          => /\ cards'[c].status = cards[c].status
             /\ cards'[c].btc_amount_sats = cards[c].btc_amount_sats]_vars

\* C8: at most one RedeemCard call per card code is between acquiring
\* card:lock:{code} and returning; in particular no two calls are both past
\* the card read (paying, recording or debiting) for the same code.
C8_RedeemSingleFlight ==
    \A r1, r2 \in Redeemers :
        (r1 # r2 /\ Validated(r1) /\ Validated(r2)) => rl[r1].code # rl[r2].code

\* C9: while treasury:lock is held by another process, a consumer that has
\* priced a card does not activate it and its message stays pending.
C9_TreasuryLockHeldBlocksFunding ==
    [][\A w \in Workers :
          (treasuryLock /\ wpc[w] = "activate" /\ wpc'[w] # "activate")
          => /\ cards'[wl[w].card].status # "active"
             /\ wl[w].msg \in {e.id : e \in pel'}]_vars

\* C10: when the available treasury is smaller than the satoshis computed for
\* a card, the consumer does not activate the card (it goes back to created)
\* and the message stays pending.
C10_InsufficientTreasuryBlocksFunding ==
    [][\A w \in Workers :
          (wpc[w] = "activate" /\ Available < wl[w].satoshis /\ wpc'[w] # "activate")
          => /\ cards'[wl[w].card].status # "active"
             /\ wl[w].msg \in {e.id : e \in pel'}]_vars

\* the card the entry at the head of w's batch is about
HeadCard(w) == stream[Head(inbox[w])].card_id

C12_RedeemedHasZeroBalance ==
    \A c \in CardIds :
        cards[c].status = "redeemed"
        => cards[c].btc_amount_sats = 0 /\ cards[c].redeemed_at

\* a card has been redeemed in full
C12_Witness ==
    \E c \in CardIds : cards[c].status = "redeemed" /\ Rows(c, "redeem") # {}

\* C13: every card in state active has a balance greater than 0.
C13_ActiveHasPositiveBalance ==
    \A c \in CardIds : cards[c].status = "active" => cards[c].btc_amount_sats > 0

\* a card is active after a partial redemption
C13_Witness ==
    \E c \in CardIds :
        /\ cards[c].status = "active"
        /\ Rows(c, "redeem") # {}
        /\ cards[c].btc_amount_sats < funded[c]

\* C14: handleMessage acknowledges the message it dispatched exactly when the
\* handler returned nil: after nil the entry leaves the pending list, after an
\* error the pending list is unchanged, and an entry leaves the pending list
\* only through a consumer whose handler returned nil for it.
C14_AckIffHandlerSucceeded ==
    [][/\ \A w \in Workers :
            /\ (wpc[w] = "nil" /\ wpc'[w] = "loop") => Head(inbox[w]) \notin {e.id : e \in pel'}
            /\ (wpc[w] = "err" /\ wpc'[w] = "loop") => pel' = pel
       /\ \A id \in PendingIds :
            id \notin {e.id : e \in pel'}
            => \E w \in Workers :
                  wpc[w] = "nil" /\ Head(inbox[w]) = id /\ wpc'[w] = "loop"]_vars

\* a handler has returned an error for an entry that is pending
C14_Witness ==
    \E w \in Workers : wpc[w] = "err" /\ Head(inbox[w]) \in PendingIds

\* entry id is pending under a consumer that died
OwnerDied(id) == \E e \in pel : e.id = id /\ wpc[e.consumer] = "dead"
\* entry id is assigned to a running consumer whose handler has been invoked on it
HandlerInvoked(id) ==
    \E e \in pel :
        /\ e.id = id
        /\ wpc[e.consumer] \in {"lease", "price", "activate", "fundtx", "nil", "err"}
        /\ Head(inbox[e.consumer]) = id

\* C15: an entry that is pending under a dead consumer is eventually assigned
\* to the consumer that keeps running and that consumer's handler is invoked
\* on it (unless a handler that already had it acknowledges it meanwhile); an
\* entry that has not been idle for the reclaim threshold keeps its consumer.
C15_DeadConsumersEntriesAreReclaimed ==
    /\ [][\A e \in pel : ~e.idle =>
             \A f \in pel' : f.id = e.id => f.consumer = e.consumer]_vars
    /\ \A id \in 1..MaxCards :
          OwnerDied(id) ~> (HandlerInvoked(id) \/ id \notin PendingIds)

\* the running consumer handles an entry it took over from the dead one
C15_Witness ==
    /\ wpc[MortalWorker] = "dead"
    /\ \E e \in pel : e.consumer = LiveWorker /\ HandlerInvoked(e.id)

\* C16: a FundCard message that fails validation does not stay pending: once
\* it is in the pending list it eventually leaves it (dropped as poison by a
\* reclaim cycle).
C16_PoisonMessageIsDropped ==
    \A id \in 1..MaxCards :
        (id \in PendingIds /\ ~Validate(stream[id])) ~> (id \notin PendingIds)

\* C17 as stated: a RedeemCard call that returns a response reports a
\* transaction row whose status is terminal (confirmed or failed).
C17_ReturnsTerminalRowOrError ==
    \A r \in Redeemers :
        rpc[r] = "finish" => RedeemRow(r).status \in {"confirmed", "failed"}

\* C17 amended: a RedeemCard call that returns a response reports a row that
\* is stored, with status confirmed for Lightning and pending for on-chain;
\* every other exit of the call is an error.
C17_ReturnsStoredRowOrError ==
    \A r \in Redeemers :
        rpc[r] = "finish"
        => /\ InsertedColumns(RedeemRow(r)) \in BagToSet(transactions)
           /\ rl[r].method = "lightning" => RedeemRow(r).status = "confirmed"
           /\ rl[r].method = "onchain" => RedeemRow(r).status = "pending"

\* an on-chain redemption is about to return its response
C17_Witness ==
    \E r \in Redeemers : rpc[r] = "finish" /\ rl[r].method = "onchain"

\* C18: when a RedeemCard call that took the card lock returns, on success or
\* on any error path, the key card:lock:{code} is gone; a key that exists
\* always belongs to a call still in progress.
C18_LockReleasedOnReturn ==
    /\ [](\A code \in cardLock : \E r \in Redeemers : InFlight(r) /\ rl[r].code = code)
    /\ [][\A r \in Redeemers :
             (InFlight(r) /\ ~InFlight(r)') => rl[r].code \notin cardLock']_vars

\* a call has returned with an error after its redeem row was stored (the card
\* update failed), and no lock is left
C18_Witness ==
    /\ cardLock = {}
    /\ \A r \in Redeemers : ~InFlight(r)
    /\ \E c \in CardIds :
          /\ Rows(c, "redeem") # {}
          /\ cards[c].status = "active"
          /\ cards[c].btc_amount_sats = funded[c]

\* the card a call at its card read would find is not active, or holds less
\* than the requested amount
NotRedeemable(r) ==
    /\ rl[r].code \in CardIds
    /\ \/ cards[rl[r].code].status # "active"
       \/ rl[r].amount > cards[rl[r].code].btc_amount_sats

\* C19: a RedeemCard call whose card is not active, or whose amount exceeds the
\* balance, returns from its card read: the node is not asked to pay and the
\* cards and the transactions are unchanged.
C19_RejectedBeforePayment ==
    [][\A r \in Redeemers :
          (rpc[r] = "validate" /\ NotRedeemable(r) /\ rpc'[r] # "validate")
          => /\ rpc'[r] = "idle"
             /\ treasury' = treasury
             /\ cards' = cards
             /\ transactions' = transactions]_vars

\* a call is at its card read for more than what is left on a card that was
\* partly redeemed
C19_Witness ==
    \E r \in Redeemers :
        /\ rpc[r] = "validate"
        /\ rl[r].code \in CardIds
        /\ cards[rl[r].code].status = "active"
        /\ Rows(rl[r].code, "redeem") # {}
        /\ rl[r].amount > cards[rl[r].code].btc_amount_sats

\* C20: a Lightning redemption whose decoded invoice is expired, has no amount
\* or is for another amount than the request is rejected before any payment:
\* the node pays nothing, no transaction is stored and the card is unchanged.
C20_BadInvoiceRejectedBeforePayment ==
    [][\A r \in Redeemers :
          (/\ rpc[r] = "pay" /\ rl[r].method = "lightning"
           /\ \/ rl[r].invoice.expired
              \/ rl[r].invoice.amount_sats = 0
              \/ rl[r].invoice.amount_sats # rl[r].amount
           /\ rpc'[r] # "pay")
          => /\ rpc'[r] = "idle"
             /\ treasury' = treasury
             /\ cards' = cards
             /\ transactions' = transactions]_vars

\* a Lightning redemption of an active card has reached the payment step with
\* an expired invoice for the right amount, and the node could pay it
C20_Witness ==
    \E r \in Redeemers :
        /\ rpc[r] = "pay" /\ rl[r].method = "lightning"
        /\ rl[r].invoice.expired
        /\ rl[r].invoice.amount_sats = rl[r].amount
        /\ treasury >= rl[r].amount

\* C21: when a Lightning payment ends with a status other than succeeded, or
\* the payment call errors, RedeemCard fails: the call never gets past the
\* payment step, and the step that ends it stores no redeem transaction and
\* leaves the card's balance and state as they were.
C21_FailedPaymentChangesNothing ==
    /\ [](\A r \in Redeemers :
            rpc[r] \in {"record", "debit", "finish"} => rl[r].pay.result = "succeeded")
    /\ [][\A r \in Redeemers :
             (/\ rpc[r] = "pay" /\ rl[r].method = "lightning"
              /\ rpc'[r] # "pay"
              /\ rl'[r].pay.result # "succeeded")
             => /\ rpc'[r] = "idle"
                /\ transactions' = transactions
                /\ cards' = cards
                /\ treasury' = treasury]_vars

\* a Lightning redemption of an active card is at the payment step with an
\* invoice that passes the checks and an amount the node holds: whether it
\* goes on depends on how PayInvoice ends
C21_Witness ==
    \E r \in Redeemers :
        /\ rpc[r] = "pay" /\ rl[r].method = "lightning"
        /\ InvoiceAccepted(rl[r].invoice, rl[r].amount)
        /\ treasury >= rl[r].amount
        /\ cards[rl[r].card].status = "active"

\* C22: the row stored by a Lightning redemption has a payment_hash and a
\* payment_preimage and no tx_hash; the row stored by an on-chain redemption
\* has a tx_hash and no payment_hash.
C22_StoredRowCarriesPaymentFields ==
    [][\A r \in Redeemers :
          (rpc[r] = "record" /\ rpc'[r] = "debit")
          => \E row \in BagToSet(transactions') :
                /\ CopiesIn(row, transactions') > CopiesIn(row, transactions)
                /\ row.type = "redeem"
                /\ rl[r].method = "lightning"
                   => /\ row.payment_hash # Null
                      /\ row.payment_preimage # Null
                      /\ row.tx_hash = Null
                /\ rl[r].method = "onchain"
                   => /\ row.tx_hash # Null
                      /\ row.payment_hash = Null]_vars



\* no funding and no redemption other than the ones named is between its first
\* write and its return
OthersIdle(ws, rs) ==
    /\ \A w \in Workers \ ws : wpc[w] \in {"loop", "lease", "dead"}
    /\ \A r \in Redeemers \ rs : rpc[r] \in {"idle", "validate"}

\* C23: when a successful card funding or a successful redemption completes,
\* the value of the available treasury cached before it is gone: the key is
\* absent or holds the balance as it is after the operation (no other funding
\* or redemption being under way).
C23_BalanceChangeInvalidatesCache ==
    [][/\ \A w \in Workers :
            (/\ wpc[w] = "fundtx" /\ wpc'[w] = "nil"
             /\ OthersIdle({w}, {}))
            => cache' \in {NoCache, Available'}
       /\ \A r \in Redeemers :
            (/\ rpc[r] = "finish" /\ rpc'[r] = "idle"
             /\ OthersIdle({}, {r}))
            => cache' \in {NoCache, Available'}]_vars


\* C24: when the available treasury computes negative,
\* GetTreasuryAvailableBalance returns an error and leaves the cache key
\* absent; no call returns a negative value and the key never holds one.
C24_NegativeAvailableIsRefused ==
    /\ [](treasuryRead.value >= 0 /\ (cache # NoCache => cache >= 0))
    /\ [][(cache = NoCache /\ Available < 0 /\ treasuryRead' # treasuryRead)
          => /\ treasuryRead'.err # "nil"
             /\ cache' = NoCache]_vars

\* the cards reserve more than the node holds, the key is absent and the
\* latest call came back with the insufficient-balance error
C24_Witness ==
    /\ Available < 0
    /\ cache = NoCache
    /\ treasuryRead = [value |-> 0, err |-> "ErrInsufficientBalance"]


\* C25: once a transaction row has a terminal status (confirmed or failed), no
\* later operation changes it: no step takes a copy of such a row away.
C25_TerminalRowsAreImmutable ==
    [][\A row \in BagToSet(transactions) :
          row.status \in {"confirmed", "failed"}
          => CopiesIn(row, transactions') >= CopiesIn(row, transactions)]_vars


\* C26: no two stored cards share a redemption code, however CreateCard calls
\* interleave, and no step changes the code of a stored card.
C26_CodeUniqueAndImmutable ==
    /\ [](\A a, b \in CardIds : a # b => cards[a].code # cards[b].code)
    /\ [][\A c \in CardIds : c \in 1..Len(cards') /\ cards'[c].code = cards[c].code]_vars

\* two cards are stored, the first one has been funded since, and a call that
\* had drawn the code of a stored card while it was still free has failed
C26_Witness ==
    /\ Len(cards) = 2
    /\ cards[1].status = "active"
    /\ \E i \in Issuers :
          /\ il[i].result = "err"
          /\ il[i].attempt = 0
          /\ CodeExists(il[i].code)


C28_PublishFailureKeepsCard ==
    [][\A i \in Issuers :
          (ipc[i] = "publish" /\ ipc'[i] = "idle")
          => /\ il'[i].result = "ok"
             /\ cards' = cards
             /\ cards[il[i].card].status = "created"
             /\ cards[il[i].card].btc_amount_sats = 0
             /\ \/ stream' = stream
                \/ /\ stream' = Append(stream, stream'[Len(stream')])
                   /\ stream'[Len(stream')].card_id = il[i].card]_vars

\* a CreateCard call has returned success for a card that is stored in state
\* created, and the stream holds no message for that card
C28_Witness ==
    \E i \in Issuers :
        /\ ipc[i] = "idle" /\ il[i].result = "ok"
        /\ cards[il[i].card].status = "created"
        /\ cards[il[i].card].btc_amount_sats = 0
        /\ \A m \in 1..Len(stream) : stream[m].card_id # il[i].card


\* C29: after its context is cancelled Consume returns at the next iteration
\* of its loop (once the batch in hand is dispatched); from the top of that
\* iteration on it starts no read, no reclaim and no handler: nothing is
\* delivered or reassigned to the consumer and its position only changes to
\* returned, where it stays.
C29_CancelStopsConsume ==
    /\ \A w \in Workers : cancelled[w] ~> (wpc[w] = "stopped")
    /\ [][\A w \in Workers :
             /\ (cancelled[w] /\ wpc[w] = "loop" /\ inbox[w] = <<>>)
                => /\ wpc'[w] \in {"loop", "stopped"}
                   /\ inbox'[w] = <<>>
                   /\ {e.id : e \in {x \in pel' : x.consumer = w}}
                         \subseteq {e.id : e \in {x \in pel : x.consumer = w}}
             /\ wpc[w] = "stopped"
                => /\ wpc'[w] = "stopped"
                   /\ inbox'[w] = <<>>
                   /\ {e.id : e \in {x \in pel' : x.consumer = w}}
                         \subseteq {e.id : e \in {x \in pel : x.consumer = w}}]_vars

\* a consumer has returned while an entry that was never delivered is in the
\* stream and an idle entry is pending
C29_Witness ==
    \E w \in Workers :
        /\ wpc[w] = "stopped"
        /\ delivered < Len(stream) \/ IdleIds # {}

\* C30: a transport error of the stream store during a read does not end the
\* loop: after the error the consumer is back at the top of its loop, and only
\* a consumer whose context is cancelled ever returns.
C30_ReadErrorKeepsLoop ==
    /\ [](\A w \in Workers : wpc[w] = "stopped" => cancelled[w])
    /\ [][\A w \in Workers :
             wpc[w] = "readerr" => wpc'[w] \in {"readerr", "loop"}]_vars
    /\ \A w \in Workers : (wpc[w] = "readerr") ~> (wpc[w] = "loop")

\* a read of a consumer whose context is not cancelled has just failed
C30_Witness ==
    \E w \in Workers : wpc[w] = "readerr" /\ ~cancelled[w]


\* C31: a stream entry without a data field is acknowledged and dropped when
\* it is dispatched, and the handler is not invoked for it: the step takes it
\* out of the pending list and leaves the consumer at the top of its batch,
\* and no handler is ever running on such an entry.
C31_NoDataIsAckedAndDropped ==
    /\ [](\A w \in Workers :
            wpc[w] \in {"lease", "price", "activate", "fundtx", "nil", "err"}
            => stream[Head(inbox[w])].data)
    /\ [][\A w \in Workers :
             (/\ wpc[w] = "loop" /\ inbox[w] # <<>>
              /\ ~stream[Head(inbox[w])].data
              /\ inbox'[w] # inbox[w] /\ wpc'[w] # "dead")
             => /\ Head(inbox[w]) \notin {e.id : e \in pel'}
                /\ inbox'[w] = Tail(inbox[w])
                /\ wpc'[w] = "loop" /\ wl'[w] = wl[w]
                /\ cards' = cards /\ transactions' = transactions]_vars

\* an entry without data was delivered, its consumer has nothing left in hand
\* and the entry is not pending
C31_Witness ==
    \E id \in 1..delivered :
        /\ ~stream[id].data
        /\ id \notin PendingIds
        /\ \A w \in Workers : inbox[w] = <<>>


\* C32: with a single consumer in the group and no reclaim, the handler gets
\* the messages of the stream in the order of their publication: the entries
\* in the consumer's hand are the latest delivered ones in stream order, and
\* the k-th invocation of the handler is for the k-th entry of the stream.
C32_SingleConsumerFifo ==
    /\ [](inbox[LiveWorker]
            = [k \in 1..Len(inbox[LiveWorker]) |-> delivered - Len(inbox[LiveWorker]) + k])
    /\ [][(wpc[LiveWorker] = "loop" /\ wpc'[LiveWorker] \in {"lease", "nil", "err"})
            => Head(inbox[LiveWorker]) = delivered - Len(inbox[LiveWorker]) + 1]_vars

\* two messages were published; the consumer is done with the first and its
\* handler runs on the second
C32_Witness ==
    /\ Len(stream) = 2
    /\ inbox[LiveWorker] = <<2>>
    /\ wpc[LiveWorker] = "lease"
    /\ cards[1].status = "active"


\* the entries a consumer holds for dispatch
InHand(box, w) == {box[w][k] : k \in 1..Len(box[w])}

\* the entry was delivered and its consumer's handler has returned
Dispatched(id) == id <= delivered /\ \A w \in Workers : id \notin InHand(inbox, w)

\* C33: with several consumers of one group and no reclaim, every published
\* message is dispatched to the handler of exactly one consumer: an entry is
\* handed to a consumer only if it was never delivered before, to one consumer
\* and once, so there are as many handler invocations as delivered messages;
\* and every published message is eventually dispatched.
C33_EachMessageHandledOnce ==
    /\ [](\A id \in 1..Len(stream) :
            Cardinality({<<w, k>> \in Workers \X (1..MaxIssued) :
                            k <= Len(inbox[w]) /\ inbox[w][k] = id}) <= 1)
    /\ [][\A w \in Workers : \A id \in InHand(inbox', w) \ InHand(inbox, w) :
             /\ id > delivered /\ id <= delivered'
             /\ \A v \in Workers \ {w} : id \notin InHand(inbox', v)]_vars
    /\ \A id \in 1..MaxIssued : (id <= Len(stream)) ~> Dispatched(id)

\* two messages were published and each of the two consumers has one of them
\* in its handler
C33_Witness ==
    /\ Len(stream) = 2
    /\ inbox["w1"] # <<>> /\ inbox["w2"] # <<>>
    /\ inbox["w1"] # inbox["w2"]
    /\ \A w \in Workers : wpc[w] = "lease"

\* Client.SendOnChain called by a client other than the card service (its
\* tests call it with 545 and 546): the node's wallet pays what it accepts.
\* One such call is followed per behaviour.
SendOnChainCall(amount, answered) ==
    /\ sent = NoSend
    /\ answered => treasury >= amount
    /\ LET res == SendOnChain(amount, answered)
       IN /\ sent' = [amount |-> amount, tx_hash |-> res.tx_hash, err |-> res.err]
          /\ treasury' = IF res.err = "nil" THEN treasury - amount ELSE treasury
    /\ UNCHANGED <<storeVars, queueVars, workerVars, cacheVars, treasuryRead, redeemVars,
                   issueVars, codegen>>

\* One consumer funds the cards, one API request redeems them on-chain with
\* amounts around the dust limit, beside a direct caller of the node client
NextOnChain ==
    \/ \E fiat \in FiatAmounts, published \in BOOLEAN : CreateCard(fiat, published)
    \/ XReadGroup(LiveWorker)
    \/ FetchCard(LiveWorker)
    \/ \E updated \in BOOLEAN : SetFunding(LiveWorker, updated)
    \/ GetPrice(LiveWorker)
    \/ \E updated \in BOOLEAN : Activate(LiveWorker, updated)
    \/ \E inserted \in BOOLEAN : FundTransaction(LiveWorker, inserted)
    \/ HandleMessage(LiveWorker)
    \/ \E code \in Codes, amount \in OnChainAmounts :
          RedeemCard("r1", code, "onchain", amount, NoInvoice)
    \/ RedeemProgress
    \/ \E amount \in OnChainAmounts, answered \in BOOLEAN : SendOnChainCall(amount, answered)

SpecOnChain == Init /\ [][NextOnChain]_vars

\* C34: the node client refuses an on-chain send below 546 sats as dust (545
\* is refused, nothing leaves the wallet) and passes 546 sats and more on to
\* the node, while an on-chain RedeemCard with an amount below the redemption
\* minimum of 10 000 sats returns from the payment step with no send made: the
\* treasury, the stored transactions and the cards are unchanged.
C34_DustAtClientMinimumAtService ==
    [][ /\ (sent' # sent) =>
             /\ (sent'.amount < dustLimit) =>
                   (sent'.err = "below dust limit" /\ treasury' = treasury)
             /\ (sent'.amount >= dustLimit) => (sent'.err # "below dust limit")
             /\ (sent'.amount = 545) => (sent'.err # "nil")
             /\ (sent'.amount = 546 /\ sent'.err = "nil") =>
                   (sent'.tx_hash = "txid" /\ treasury' = treasury - 546)
        /\ \A r \in Redeemers :
             (/\ rpc[r] = "pay"
              /\ rl[r].method = "onchain"
              /\ rl[r].amount < minOnChainAmountSats
              /\ rpc'[r] # rpc[r]) =>
                 /\ rpc'[r] = "idle"
                 /\ treasury' = treasury
                 /\ transactions' = transactions
                 /\ cards' = cards ]_vars

\* the node client accepted a send of 546 sats while an on-chain redemption of
\* 546 sats waits at the payment step
C34_Witness ==
    /\ sent = [amount |-> 546, tx_hash |-> "txid", err |-> "nil"]
    /\ \E r \in Redeemers :
          /\ rpc[r] = "pay"
          /\ rl[r].method = "onchain"
          /\ rl[r].amount = 546

\* generateCardCode, line 644: the character set without O, 0, I, 1, L
charset ==
    <<"A", "B", "C", "D", "E", "F", "G", "H", "J", "K", "M", "N", "P", "Q", "R", "S",
      "T", "U", "V", "W", "X", "Y", "Z", "2", "3", "4", "5", "6", "7", "8", "9">>
codeLength == 16

\* four random bytes as rand.Read may return them; a code is four of these
ByteQuartets ==
    {<<0, 1, 2, 3>>, <<30, 31, 61, 62>>, <<255, 254, 128, 7>>, <<8, 9, 10, 11>>}

\* lines 654-656: code[i] = charset[int(code[i]) % len(charset)]
CodeChars(bytes) == [i \in 1..Len(bytes) |-> charset[(bytes[i] % Len(charset)) + 1]]

\* lines 659-664: Sprintf("GIFT-%s-%s-%s", codeStr[0:4], codeStr[4:8], codeStr[8:12])
FormatCode(codeStr) ==
    <<"G", "I", "F", "T", "-">> \o SubSeq(codeStr, 1, 4) \o <<"-">>
        \o SubSeq(codeStr, 5, 8) \o <<"-">> \o SubSeq(codeStr, 9, 12)

\* one attempt of generateCardCode: codeLength random bytes, mapped and formatted
DrawCode(bytes) ==
    /\ Len(bytes) = codeLength
    /\ codegen' = [code |-> CodeChars(bytes), formattedCode |-> FormatCode(CodeChars(bytes))]
    /\ UNCHANGED <<storeVars, queueVars, workerVars, cacheVars, treasury, treasuryRead,
                   sent, redeemVars, issueVars>>

NextCode ==
    \E q1 \in ByteQuartets, q2 \in ByteQuartets, q3 \in ByteQuartets, q4 \in ByteQuartets :
        DrawCode(q1 \o q2 \o q3 \o q4)

SpecCode == Init /\ [][NextCode]_vars

RECURSIVE WithoutDashes(_)
WithoutDashes(str) ==
    IF str = <<>> THEN <<>>
    ELSE IF Head(str) = "-" THEN WithoutDashes(Tail(str))
         ELSE <<Head(str)>> \o WithoutDashes(Tail(str))

Range(str) == {str[i] : i \in 1..Len(str)}

\* C35: every code generateCardCode produces is GIFT- followed by 16 characters
\* (dashes not counted), each one of the 31 characters of the alphabet, which
\* has none of O, 0, I, 1, L.
C35_CodeHasSixteenCharacters ==
    codegen # NoCode =>
        LET code == codegen.formattedCode
            rest == WithoutDashes(SubSeq(code, 6, Len(code)))
        IN /\ SubSeq(code, 1, 5) = <<"G", "I", "F", "T", "-">>
           /\ Len(charset) = 31
           /\ Range(charset) \cap {"O", "0", "I", "1", "L"} = {}
           /\ Range(rest) \subseteq Range(charset)
           /\ Len(rest) = 16

\* The node's wallet starts full and only redemptions draw on it; the store
\* answers every statement of a redemption, and a card lock may outlive its TTL
TreasuryFull == 40000

InitPayout == Init /\ treasury = TreasuryFull

NextPayout ==
    \/ \E fiat \in FiatAmounts, published \in BOOLEAN : CreateCard(fiat, published)
    \/ XReadGroup(LiveWorker)
    \/ FetchCard(LiveWorker)
    \/ \E updated \in BOOLEAN : SetFunding(LiveWorker, updated)
    \/ GetPrice(LiveWorker)
    \/ \E updated \in BOOLEAN : Activate(LiveWorker, updated)
    \/ \E inserted \in BOOLEAN : FundTransaction(LiveWorker, inserted)
    \/ HandleMessage(LiveWorker)
    \/ \E r \in Redeemers, code \in Codes, amount \in Amounts :
          RedeemCard(r, code, "lightning", amount, GoodInvoice(amount))
    \/ \E r \in Redeemers : ValidateCardForRedemption(r)
    \/ \E r \in Redeemers, result \in PaymentResults : ExecutePayment(r, result)
    \/ \E r \in Redeemers : RecordRedemptionTransaction(r, TRUE)
    \/ \E r \in Redeemers : UpdateCardBalance(r, TRUE)
    \/ \E r \in Redeemers : RedeemFinish(r)
    \/ \E code \in Codes : CardLockExpire(code)

SpecPayout == InitPayout /\ [][NextPayout]_vars

\* what has left the node's wallet: every satoshi of it was paid for a redemption
PaidOut == TreasuryFull - treasury

RECURSIVE FundedUpTo(_)
FundedUpTo(n) == IF n = 0 THEN 0 ELSE funded[n] + FundedUpTo(n - 1)

\* C36: the satoshis the node paid out for the cards never exceed what the
\* cards were funded with, whatever the interleaving of the RedeemCard calls,
\* a payment that outlasts the card lock's TTL included.
C36_PayoutWithinFunding == PaidOut <= FundedUpTo(Len(cards))

\* Two RedeemCard calls for one code: the second arrives while the first is
\* still running, so it can take the lock only after the first call's key
\* expired, and a key that exists while both run is the second call's
FirstCall == "r1"
SecondCall == "r2"

NextLock ==
    \/ \E fiat \in FiatAmounts, published \in BOOLEAN : CreateCard(fiat, published)
    \/ XReadGroup(LiveWorker)
    \/ FetchCard(LiveWorker)
    \/ \E updated \in BOOLEAN : SetFunding(LiveWorker, updated)
    \/ GetPrice(LiveWorker)
    \/ \E updated \in BOOLEAN : Activate(LiveWorker, updated)
    \/ \E inserted \in BOOLEAN : FundTransaction(LiveWorker, inserted)
    \/ HandleMessage(LiveWorker)
    \/ /\ ~InFlight(SecondCall)
       /\ \E code \in Codes, amount \in Amounts :
             RedeemCard(FirstCall, code, "lightning", amount, GoodInvoice(amount))
    \/ /\ InFlight(FirstCall)
       /\ \E code \in Codes, amount \in Amounts :
             RedeemCard(SecondCall, code, "lightning", amount, GoodInvoice(amount))
    \/ RedeemProgress

SpecLock == Init /\ [][NextLock]_vars

\* both calls run for the same code and the key of the second one exists
SecondHoldsLock ==
    /\ InFlight(FirstCall) /\ InFlight(SecondCall)
    /\ rl[FirstCall].code = rl[SecondCall].code
    /\ rl[SecondCall].code \in cardLock

\* C37: a RedeemCard call releases only a lock it still holds: when the first
\* call's key expired and the second call has taken the lock for the same
\* code, the first call's exit leaves the second call's key in place.
C37_ExitKeepsForeignLock ==
    [][(SecondHoldsLock /\ ~InFlight(FirstCall)' /\ InFlight(SecondCall)')
         => rl[SecondCall].code \in cardLock']_vars

\* The consumer that keeps running, with a price provider that answers: a
\* price request that can be made again and again is eventually answered
FairOracle == SF_vars(GetPrice(LiveWorker) /\ wpc'[LiveWorker] # "err")

SpecOracle == Init /\ [][NextLive]_vars /\ FairLive /\ FairOracle

\* C38: no card stays in funding forever: while a consumer keeps running and
\* the price provider answers, a card in funding eventually becomes active or
\* goes back to created (after a failed price request, a computed amount of
\* zero satoshis, or a crash between the funding update and the ack).
C38_FundingIsResolved ==
    \A c \in 1..MaxCards :
        (c <= Len(cards) /\ cards[c].status = "funding")
            ~> (c <= Len(cards) /\ cards[c].status \in {"active", "created"})

\* C39: a redeem is all-or-nothing: a RedeemCard call that returns an error
\* has had no payment sent by the node (so it stored no redeem transaction and
\* left the card as it was), and a call that returns its response leaves a
\* redeem transaction of the card stored and the balance it read reduced by
\* the paid amount.
C39_RedeemIsAllOrNothing ==
    [][\A r \in Redeemers :
          (InFlight(r) /\ ~InFlight(r)') =>
              IF rpc[r] = "finish"
              THEN /\ Rows(rl[r].card, "redeem") # {}
                   /\ cards'[rl[r].card].btc_amount_sats = rl[r].balance - rl[r].amount
              ELSE rl[r].pay = NoPayment]_vars

\* C40: a card that is active or redeemed has exactly one stored fund
\* transaction, confirmed and for the balance set at activation: whenever the
\* funding handler's message is acknowledged and its card is active or
\* redeemed, that transaction is stored.
C40_FundedCardHasItsFundTransaction ==
    [][\A w \in Workers :
          (wpc[w] = "nil" /\ wpc'[w] = "loop") =>
              LET c == stream[Head(inbox[w])].card_id
              IN (c \in 1..Len(cards) /\ cards[c].status \in {"active", "redeemed"}) =>
                    /\ CountRows(Rows(c, "fund")) = 1
                    /\ \A t \in Rows(c, "fund") :
                          t.status = "confirmed" /\ t.btc_amount_sats = funded[c]]_vars
====
